---- MODULE Spec2Model ----
(***************************************************************************)
(* HighwayHalo frontend (src/frontend/src/App.jsx, the speed-aware variant *)
(* of lines 229-452): the geolocation watch of LocationTracker, the speed  *)
(* estimate taken from consecutive fixes, the nearest-point proximity      *)
(* check, the points lookup of App and the alert banner with its timers.   *)
(*                                                                         *)
(* Geometry.  All fixes and points lie on one meridian (lng = Meridian).   *)
(* There the haversine formula of calculateDistance reduces to R * |dLat|, *)
(* so a latitude is kept as an integer number of decimetres of arc along   *)
(* the meridian and a distance is a number of decimetres.                  *)
(*                                                                         *)
(* Numbers.  A JavaScript number that results from a division is kept as   *)
(* the pair [num, den]: den > 0 or den < 0 is the quotient num/den,        *)
(* den = 0 is Infinity (num > 0) or NaN (num = 0), as IEEE 754 division    *)
(* gives for a non-negative numerator.                                     *)
(*                                                                         *)
(* Time.  clock is the monotonic time that drives setTimeout, now is the   *)
(* wall clock read by Date.now(); both are in milliseconds.  The wall      *)
(* clock follows the monotonic one except when the system steps it back.   *)
(***************************************************************************)
EXTENDS Integers, Sequences, FiniteSets, TLC

VARIABLES
  mounted,        \* the App tree (and LocationTracker in it) is mounted
  hasGeolocation, \* navigator.geolocation exists
  fetchState,     \* "pending" | "ok" | "failed": the fetch of /api/points
  points,         \* App state: points
  alert,          \* App state: alert (null or the alert info)
  speed,          \* App state: speed (what toFixed(1) gave)
  userLocation,   \* LocationTracker state: userLocation
  lastPosition,   \* LocationTracker state: lastPosition
  effectPending,  \* a dependency of the effect changed, the effect has not re-run yet
  cleanup,        \* the cleanup of the effect's last run: null or the watchId it clears
  watches,        \* the watches registered with navigator.geolocation
  timers,         \* deadlines (monotonic ms) of the pending setTimeout callbacks
  clock,          \* monotonic time, ms
  now,            \* Date.now(), ms
  nfix,           \* number of fixes processed so far
  lastFix,        \* record of the last run of the position callback (history)
  alertAt,        \* clock at the handleProximityAlert call that set the current alert (history)
  clearedAge      \* how long the alert last cleared had been displayed; -1 if none yet (history)

vars == <<mounted, hasGeolocation, fetchState, points, alert, speed, userLocation,
          lastPosition, effectPending, cleanup, watches, timers, clock, now, nfix,
          lastFix, alertAt, clearedAge>>

----------------------------------------------------------------------------
(* Bounds of the model *)

MaxFixes == 2
MaxTicks == 3
MaxWatchIds == 2

WatchIds == 1..MaxWatchIds

(* Program constants *)

speedLimit == 5
Radius == 100
AlertTimeout == 5000
Infinity == 1000000
Meridian == 0

\* Granularity of the model's time: half the alert timeout
TickMs == AlertTimeout \div 2

null == <<>>
Some(x) == <<x>>

Abs(x) == IF x < 0 THEN -x ELSE x

----------------------------------------------------------------------------
(* Data *)

Point(n, t, la) == [name |-> n, type |-> t, lat |-> la, lng |-> Meridian]

\* The fallback list of the .catch branch; a latitude is the point's arc
\* distance from "Lipton Camera-2" in decimetres.
DefaultPoints ==
  << Point("Hostel Camera-1", "CCTV", 2980),
     Point("Accidental Prone Area", "Speed Breaker", 1130),
     Point("Lipton Camera-2", "CCTV", 0),
     Point("MBA Block Construction Area", "Speed Breaker", 650) >>

PA == Point("Camera A", "CCTV", 0)
PB == Point("Breaker B", "Speed Breaker", 130)
PC == Point("Camera C", "CCTV", 100)

\* Lists the backend may answer with
PointLists == { <<>>, <<PA, PB>>, <<PA, PC, PB>>, <<PC, PA>> }

\* Latitudes the location provider may report
FixLats == {0, 50, 235}

----------------------------------------------------------------------------
(* Pure functions *)

calculateDistance(lat1, lon1, lat2, lon2) == Abs(lat2 - lat1)

\* Math.round of a distance in metres, the distance given in decimetres
MathRound(dm) == (dm + 5) \div 10

Zero == [num |-> 0, den |-> 1]

\* (distance / timeDiff) * 3.6 with distance in dm and the time difference in ms
SpeedOf(distance, timeDiffMs) == [num |-> 360 * distance, den |-> timeDiffMs]

\* x > limit, limit an integer
GreaterThan(x, limit) ==
  \/ x.den > 0 /\ x.num > limit * x.den
  \/ x.den < 0 /\ x.num < limit * x.den
  \/ x.den = 0 /\ x.num > 0

\* Number.prototype.toFixed(1): tenths, rounded half away from zero
toFixed1(x) ==
  IF x.den = 0
    THEN [kind |-> IF x.num = 0 THEN "NaN" ELSE "Infinity", tenths |-> 0]
    ELSE LET n == Abs(x.num)
             d == Abs(x.den)
             t == (20 * n + d) \div (2 * d)
         IN  [kind |-> "number",
              tenths |-> IF (x.num < 0) # (x.den < 0) THEN -t ELSE t]

\* The loop with "distance <= minDistance": the last of several equidistant
\* points wins (faulty variant of FindNearest)
RECURSIVE FindNearest_LastTie(_, _, _, _, _, _)
FindNearest_LastTie(pts, i, userLat, userLng, nearestPoint, minDistance) ==
  IF i > Len(pts) THEN nearestPoint
  ELSE LET point == pts[i]
           distance == calculateDistance(userLat, userLng, point.lat, point.lng)
       IN  IF distance <= Radius /\ distance <= minDistance
             THEN FindNearest_LastTie(pts, i + 1, userLat, userLng,
                                      Some([point |-> point, distance |-> distance]), distance)
             ELSE FindNearest_LastTie(pts, i + 1, userLat, userLng, nearestPoint, minDistance)

\* The loop of checkProximityAndSpeed from index i on
RECURSIVE FindNearest(_, _, _, _, _, _)
FindNearest(pts, i, userLat, userLng, nearestPoint, minDistance) ==
  IF i > Len(pts) THEN nearestPoint
  ELSE LET point == pts[i]
           distance == calculateDistance(userLat, userLng, point.lat, point.lng)
       IN  IF distance <= Radius /\ distance < minDistance
             THEN FindNearest(pts, i + 1, userLat, userLng,
                              Some([point |-> point, distance |-> distance]), distance)
             ELSE FindNearest(pts, i + 1, userLat, userLng, nearestPoint, minDistance)

NearestPoint(pts, userLat, userLng) ==
  FindNearest(pts, 1, userLat, userLng, null, Infinity)

SpeedAlert(nearest, userSpeed, limit) ==
  [type |-> "Speed Alert",
   name |-> [text |-> "SLOW DOWN", speed |-> toFixed1(userSpeed), max |-> limit,
             near |-> nearest.point.name],
   distance |-> MathRound(nearest.distance)]

ProximityAlert(nearest) ==
  [type |-> nearest.point.type,
   name |-> [text |-> "", speed |-> toFixed1(Zero), max |-> 0,
             near |-> nearest.point.name],
   distance |-> MathRound(nearest.distance)]

\* The two branches as two independent ifs: a speeding fix also gets the
\* proximity alert (faulty variant of AlertsFor)
AlertsFor_NoElse(nearestPoint, userSpeed, limit) ==
  IF nearestPoint = null THEN <<>>
  ELSE IF GreaterThan(userSpeed, limit)
         THEN << SpeedAlert(nearestPoint[1], userSpeed, limit), ProximityAlert(nearestPoint[1]) >>
         ELSE << ProximityAlert(nearestPoint[1]) >>

\* The calls of onProximityAlert one run of checkProximityAndSpeed makes, in order
AlertsFor(nearestPoint, userSpeed, limit) ==
  IF nearestPoint = null THEN <<>>
  ELSE IF GreaterThan(userSpeed, limit)
         THEN << SpeedAlert(nearestPoint[1], userSpeed, limit) >>
         ELSE << ProximityAlert(nearestPoint[1]) >>

checkProximityAndSpeed(pts, limit, userLat, userLng, userSpeed) ==
  AlertsFor(NearestPoint(pts, userLat, userLng), userSpeed, limit)

\* No "if (lastPosition)": a missing previous fix reads as position 0 at time -1
\* (faulty variant of UserSpeed)
UserSpeed_NoGuard(last, newLocation, t) ==
  LET prev == IF last = null THEN [lat |-> 0, lng |-> Meridian, time |-> -1] ELSE last[1]
  IN  SpeedOf(calculateDistance(prev.lat, prev.lng, newLocation.lat, newLocation.lng),
              t - prev.time)

\* userSpeed of the position callback
UserSpeed(last, newLocation, t) ==
  IF last = null THEN Zero
  ELSE SpeedOf(calculateDistance(last[1].lat, last[1].lng, newLocation.lat, newLocation.lng),
               t - last[1].time)

\* Only the first fix is stored (faulty variant of NextLastPosition)
NextLastPosition_OnlyFirst(newLocation, t) ==
  IF lastPosition = null
    THEN Some([lat |-> newLocation.lat, lng |-> newLocation.lng, time |-> t])
    ELSE lastPosition

\* The value setLastPosition is called with: { ...newLocation, time: Date.now() }
NextLastPosition(newLocation, t) ==
  Some([lat |-> newLocation.lat, lng |-> newLocation.lng, time |-> t])

\* clearWatch that leaves the watch registered (faulty variant of clearWatch)
clearWatch_Noop(ws, id) == ws

clearWatch(ws, id) == { w \in ws : w.id # id }

----------------------------------------------------------------------------
(* State machine *)

Init ==
  /\ mounted = TRUE
  /\ hasGeolocation \in BOOLEAN
  /\ fetchState = "pending"
  /\ points = <<>>
  /\ alert = null
  /\ speed = toFixed1(Zero)
  /\ userLocation = null
  /\ lastPosition = null
  /\ effectPending = TRUE
  /\ cleanup = null
  /\ watches = {}
  /\ timers = {}
  /\ clock = 0
  /\ now = 0
  /\ nfix = 0
  /\ lastFix = null
  /\ alertAt = 0
  /\ clearedAge = -1

\* fetch('/api/points') resolves with an ok response: setPoints(data)
FetchOk(data) ==
  /\ fetchState = "pending"
  /\ fetchState' = "ok"
  /\ points' = IF mounted THEN data ELSE points
  /\ effectPending' = mounted
  /\ UNCHANGED <<mounted, hasGeolocation, alert, speed, userLocation, lastPosition,
                 cleanup, watches, timers, clock, now, nfix, lastFix, alertAt, clearedAge>>

\* The .catch branch leaving the list empty (faulty variant of FetchFailed)
FetchFailed_Empty ==
  /\ fetchState = "pending"
  /\ fetchState' = "failed"
  /\ points' = <<>>
  /\ effectPending' = effectPending
  /\ UNCHANGED <<mounted, hasGeolocation, alert, speed, userLocation, lastPosition,
                 cleanup, watches, timers, clock, now, nfix, lastFix, alertAt, clearedAge>>

\* fetch rejects, or the response is not ok: the .catch branch
FetchFailed ==
  /\ fetchState = "pending"
  /\ fetchState' = "failed"
  /\ points' = IF mounted THEN DefaultPoints ELSE points
  /\ effectPending' = mounted
  /\ UNCHANGED <<mounted, hasGeolocation, alert, speed, userLocation, lastPosition,
                 cleanup, watches, timers, clock, now, nfix, lastFix, alertAt, clearedAge>>

\* The watch the effect registers: the callback closes over the render's
\* points, lastPosition and speedLimit
NewWatch(ws) ==
  [id |-> CHOOSE i \in WatchIds : (\A w \in ws : w.id # i) /\
                                  (\A j \in WatchIds : (\A w \in ws : w.id # j) => i <= j),
   points |-> points, lastPosition |-> lastPosition, speedLimit |-> speedLimit]

\* The LocationTracker effect (re-)runs: the previous run's cleanup, then the body
RunEffect ==
  /\ mounted
  /\ effectPending
  /\ LET cleared == IF cleanup = null THEN watches ELSE clearWatch(watches, cleanup[1])
     IN  /\ \E i \in WatchIds : \A w \in cleared : w.id # i
         /\ IF hasGeolocation
              THEN LET w == NewWatch(cleared)
                   IN  /\ watches' = cleared \cup {w}
                       /\ cleanup' = Some(w.id)
              ELSE /\ watches' = cleared
                   /\ cleanup' = null
  /\ effectPending' = FALSE
  /\ UNCHANGED <<mounted, hasGeolocation, fetchState, points, alert, speed, userLocation,
                 lastPosition, timers, clock, now, nfix, lastFix, alertAt, clearedAge>>

\* handleProximityAlert for each alert of the sequence, in order
AlertAfter(emitted) == IF emitted = <<>> THEN alert ELSE Some(emitted[Len(emitted)])
TimersAfter(emitted) == IF emitted = <<>> THEN timers ELSE timers \cup {clock + AlertTimeout}

\* The success callback of watch w gets a position at latitude
PositionCallback(w, latitude) ==
  /\ w \in watches
  /\ nfix < MaxFixes
  /\ LET newLocation == [lat |-> latitude, lng |-> Meridian]
         userSpeed == UserSpeed(w.lastPosition, newLocation, now)
         nearest == NearestPoint(w.points, latitude, Meridian)
         emitted == checkProximityAndSpeed(w.points, w.speedLimit, latitude, Meridian, userSpeed)
     IN  /\ userLocation' = Some(newLocation)
         /\ speed' = toFixed1(userSpeed)
         /\ lastPosition' = NextLastPosition(newLocation, now)
         /\ effectPending' = TRUE
         /\ alert' = AlertAfter(emitted)
         /\ timers' = TimersAfter(emitted)
         /\ alertAt' = IF emitted = <<>> THEN alertAt ELSE clock
         /\ lastFix' = Some([lat |-> latitude, time |-> now,
                             used |-> w.lastPosition, preceding |-> lastPosition,
                             speed |-> userSpeed, points |-> w.points,
                             nearest |-> nearest, emitted |-> emitted])
  /\ nfix' = nfix + 1
  /\ UNCHANGED <<mounted, hasGeolocation, fetchState, points, cleanup, watches, clock, now,
                 clearedAge>>

\* A setTimeout callback of handleProximityAlert runs: setAlert(null)
TimerFire ==
  \E t \in timers :
    /\ t <= clock
    /\ timers' = timers \ {t}
    /\ alert' = IF mounted THEN null ELSE alert
    /\ clearedAge' = IF mounted /\ alert # null THEN clock - alertAt ELSE clearedAge
    /\ UNCHANGED <<mounted, hasGeolocation, fetchState, points, speed, userLocation,
                   lastPosition, effectPending, cleanup, watches, clock, now, nfix, lastFix,
                   alertAt>>

\* Time passes; a due timer runs before time moves on
Tick ==
  /\ clock < MaxTicks * TickMs
  /\ \A t \in timers : t > clock
  /\ clock' = clock + TickMs
  /\ now' = now + TickMs
  /\ UNCHANGED <<mounted, hasGeolocation, fetchState, points, alert, speed, userLocation,
                 lastPosition, effectPending, cleanup, watches, timers, nfix, lastFix,
                 alertAt, clearedAge>>

\* The system steps the wall clock back (time synchronisation, the user)
ClockStepBack ==
  /\ now >= TickMs
  /\ now' = now - TickMs
  /\ UNCHANGED <<mounted, hasGeolocation, fetchState, points, alert, speed, userLocation,
                 lastPosition, effectPending, cleanup, watches, timers, clock, nfix, lastFix,
                 alertAt, clearedAge>>

\* The tree unmounts: the effect's cleanup runs
Unmount ==
  /\ mounted
  /\ mounted' = FALSE
  /\ watches' = IF cleanup = null THEN watches ELSE clearWatch(watches, cleanup[1])
  /\ cleanup' = null
  /\ effectPending' = FALSE
  /\ UNCHANGED <<hasGeolocation, fetchState, points, alert, speed, userLocation,
                 lastPosition, timers, clock, now, nfix, lastFix, alertAt, clearedAge>>

Next ==
  \/ \E data \in PointLists : FetchOk(data)
  \/ FetchFailed
  \/ RunEffect
  \/ \E w \in watches, latitude \in FixLats : PositionCallback(w, latitude)
  \/ TimerFire
  \/ Tick
  \/ ClockStepBack
  \/ Unmount

Spec == Init /\ [][Next]_vars

----------------------------------------------------------------------------
(* Properties *)

Fix == lastFix[1]

\* x is 0 (or -0)
IsZero(x) == x.den # 0 /\ x.num = 0

\* x >= 0 as JavaScript evaluates it: false of NaN and of a negative quotient
NonNegative(x) == x.den > 0 \/ (x.den < 0 /\ x.num = 0) \/ (x.den = 0 /\ x.num > 0)

\* Distance of the last fix to the i-th point its callback saw
FixDistance(i) == Abs(Fix.points[i].lat - Fix.lat)

\* Indices of the points within the radius of the last fix
FixInRange == { i \in 1..Len(Fix.points) : FixDistance(i) <= Radius }

\* The i-th point is the one the last fix selected
FixSelected(i) ==
  /\ Fix.nearest = Some([point |-> Fix.points[i], distance |-> FixDistance(i)])
  /\ \A k \in 1..Len(Fix.emitted) : Fix.emitted[k].name.near = Fix.points[i].name

\* lastPosition holds the last fix
FixStored ==
  lastPosition = Some([lat |-> Fix.lat, lng |-> Meridian, time |-> Fix.time])

\* C1: the point a fix selects is the in-range point of minimum distance, and
\* among several in-range points at that distance the first of the sequence;
\* no point is selected when none is in range.
C1_NearestFirstInRange ==
  lastFix # null =>
    IF FixInRange = {}
      THEN Fix.nearest = null
      ELSE \E i \in FixInRange :
             /\ \A j \in FixInRange : FixDistance(i) <= FixDistance(j)
             /\ \A j \in FixInRange : FixDistance(j) = FixDistance(i) => i <= j
             /\ FixSelected(i)

\* A fix with two equidistant nearest points and a farther in-range one, the
\* first of the two selected and named in the alert
C1_Witness ==
  /\ lastFix # null
  /\ \E i, j, k \in FixInRange :
       /\ i < j
       /\ FixDistance(i) = FixDistance(j)
       /\ FixDistance(k) > FixDistance(i)
       /\ FixSelected(i)
       /\ Fix.emitted # <<>>

\* C2: a fix emits no alert when no point is in range and otherwise exactly
\* one: the speed alert if and only if its speed exceeds the limit, else the
\* proximity alert with the selected point's type.
C2_OneAlertPerFix ==
  lastFix # null =>
    /\ Len(Fix.emitted) <= 1
    /\ (Fix.emitted = <<>>) <=> (FixInRange = {})
    /\ Fix.emitted # <<>> =>
         LET a == Fix.emitted[1]
         IN  IF GreaterThan(Fix.speed, speedLimit)
               THEN a.type = "Speed Alert" /\ a.name.text = "SLOW DOWN"
               ELSE /\ a.type = Fix.nearest[1].point.type
                    /\ a.type # "Speed Alert"
                    /\ a.name.text = ""
    /\ Fix.emitted # <<>> => alert = Some(Fix.emitted[Len(Fix.emitted)]) \/ alert = null

\* A fix above the speed limit within the radius of a point: the speed alert alone
C2_Witness ==
  /\ lastFix # null
  /\ Fix.speed.den > 0
  /\ GreaterThan(Fix.speed, speedLimit)
  /\ Len(Fix.emitted) = 1
  /\ Fix.emitted[1].type = "Speed Alert"

\* C3 (as claimed): a fix whose elapsed time since the previous fix is <= 0
\* gets speed 0, and the fix is stored as the previous fix.
C3_ZeroSpeedOnNonPositiveElapsed ==
  (lastFix # null /\ Fix.used # null /\ Fix.time - Fix.used[1].time <= 0) =>
    /\ IsZero(Fix.speed)
    /\ FixStored

\* C4: the first fix of a session gets speed exactly 0 and is stored as the
\* previous fix.
C4_FirstFixZero ==
  (lastFix # null /\ Fix.preceding = null) =>
    /\ Fix.speed = Zero
    /\ speed = [kind |-> "number", tenths |-> 0]
    /\ FixStored

\* The first fix, away from latitude 0 and after time has passed
C4_Witness ==
  /\ lastFix # null
  /\ nfix = 1
  /\ Fix.preceding = null
  /\ Fix.lat = 50
  /\ Fix.time > 0

\* C5 (as claimed): every fix is stored as the previous fix, and the previous
\* fix a fix's speed is computed from is the fix delivered just before it.
C5_PreviousIsPrecedingFix ==
  lastFix # null =>
    /\ FixStored
    /\ Fix.used = Fix.preceding

\* C6 (as claimed): after a failed or an empty lookup the point set is empty
\* and no fix produces an alert.
C6_FailedOrEmptyLookupMeansNoPoints ==
  (fetchState = "failed" \/ (fetchState = "ok" /\ points = <<>>)) =>
    /\ points = <<>>
    /\ lastFix # null => Fix.emitted = <<>>

\* C6 (amended): after an empty lookup the point set is empty and no fix
\* produces an alert; after a failed lookup the point set is the built-in
\* list of four default points.
C6_EmptyLookupNoAlertFailedLookupDefaults ==
  /\ (fetchState = "ok" /\ points = <<>>) =>
       /\ lastFix # null => Fix.emitted = <<>>
       /\ alert = null
       /\ timers = {}
  /\ (fetchState = "failed" /\ mounted) =>
       points = DefaultPoints

\* After a failed lookup a fix at a default point raises its alert
C6_Witness ==
  /\ fetchState = "failed"
  /\ lastFix # null
  /\ Fix.points = DefaultPoints
  /\ Fix.emitted # <<>>
  /\ Fix.emitted[1].name.near = "Lipton Camera-2"
  /\ Fix.emitted[1].distance = 0

\* C7 (as claimed): the speed of every fix is >= 0.
C7_SpeedNonNegative ==
  lastFix # null => NonNegative(Fix.speed)

\* C8: the points change only when the lookup completes, never in the handling
\* of a fix; lastPosition changes only in the handling of a fix, which writes
\* the fix it handles into it.
C8_FrameOfFixHandling ==
  [][ /\ points' # points => (fetchState = "pending" /\ fetchState' # "pending")
      /\ nfix' = nfix => lastPosition' = lastPosition
      /\ nfix' # nfix =>
           /\ nfix' = nfix + 1
           /\ points' = points
           /\ lastPosition' = Some([lat |-> lastFix'[1].lat, lng |-> Meridian,
                                    time |-> lastFix'[1].time]) ]_vars

\* A second fix that raised an alert, the points as its callback saw them
C8_Witness ==
  /\ lastFix # null
  /\ nfix = 2
  /\ Fix.emitted # <<>>
  /\ Fix.points = points
  /\ Fix.preceding # null
  /\ FixStored

\* C9 (as claimed): an alert is cleared 5 seconds after the call that showed it.
C9_AlertShownFiveSeconds ==
  clearedAge # -1 => clearedAge = AlertTimeout

\* C10: at most one geolocation watch is registered at any time, it is the one
\* the effect's cleanup will clear, and none is left after unmount.
C10_AtMostOneWatch ==
  /\ Cardinality(watches) <= 1
  /\ \A w \in watches : cleanup = Some(w.id)
  /\ ~mounted => watches = {}

\* The watch re-registered after a fix and after the points arrived
C10_Witness ==
  /\ nfix >= 1
  /\ ~effectPending
  /\ \E w \in watches : w.lastPosition # null /\ w.points # <<>>

====
